---- MODULE Spec2Model ----
(***************************************************************************)
(* A model of the quiz solver: the submission-endpoint discovery           *)
(* (app/solver.py find_submit, normalize_url), the step solver and the     *)
(* chain driver (solve_single, solve_quiz_chain) and the LLM JSON layer    *)
(* (app/llm.py ask_llm_for_answer, llm_json and its repair helpers).       *)
(*                                                                         *)
(* Text (HTML, URLs, model output) is a sequence of tokens; a token is one *)
(* character or one fixed literal of the text ("submit", "action=",        *)
(* "http://").  JSON data is a tagged record [t, v]; dictionaries the      *)
(* Python code builds itself are TLA+ records, so that `"k" in d` is       *)
(* "k" \in DOMAIN d.                                                       *)
(***************************************************************************)
EXTENDS Integers, Sequences, FiniteSets, TLC

VARIABLES
    \* ---- solve_quiz_chain and the solve_single call it is in
    pc,           \* where the run is: "loop", "render", "gather", "resources",
                  \* "pdfs", "execute", "find", "post", "append", "done"
    loop_i,       \* iterations of `for i in range(12)` begun
    current,      \* the URL of the step (a JSON value: it comes from a response)
    steps,        \* the trace
    page,         \* solve_single: what render_page returned, [html, links]
    plan_info,    \* solve_single: the Planner's result
    result,       \* solve_single: the Executor's result
    submit_url,   \* solve_single: what find_submit returned
    step,         \* what solve_single returned, or {"error": ...}
    http,         \* the submission POST's response, [status, body]
    posted,       \* history: the step's POST was sent
    raised,       \* history: str(e) of the exception solve_single raised, or ""
    targets,      \* fetch_linked_resources: the URLs of set(targets) not yet downloaded
    pdf_left,     \* solve_single: the links of pdf_links not yet fetched
    context_data, \* solve_single: the context blob, one entry per file or PDF in it
    executor_prompt, \* solve_single: what the Executor's prompt is made of
    downloads,    \* history: the downloads of the step, in order
    skipped,      \* history: a download or a PDF of the step failed
    ops,          \* history: the operations of the step, in order
    \* ---- find_submit, called on its own
    fs_pc,        \* "input" | "done"
    fs_html,      \* the page's HTML
    fs_links,     \* the page's links (hrefs)
    fs_result,    \* what find_submit returned
    \* ---- llm_json, called on its own
    llm_pc,       \* "idle" | "ask" (in ask_llm_for_answer's loop) | "parse" | "done"
    llm_attempt,  \* ask_llm_for_answer: iterations of `for attempt in range(3)` done
    llm_messages, \* ask_llm_for_answer: body["messages"], by what each message is
    llm_text,     \* what ask_llm_for_answer returned
    llm_result,   \* what llm_json returned
    llm_sent,     \* history: the JSON value whose serialisation the model wrote
    llm_failed,   \* history: the attempts of the call that raised
    llm_requests, \* history: body["messages"] as sent by each attempt of the call
    llm_outcomes, \* history: how each attempt of the call ended: "raised", "blank", "text"
    \* ---- the recovery of a defective serialisation, on its own
    rp_pc,        \* "input" | "done"
    rp_value,     \* the mapping the text was meant to be
    rp_compact,   \* the text has the compact separators
    rp_defects,   \* what is wrong with the text
    rp_result,    \* what llm_json returned for the text
    \* ---- the /quiz endpoint around solve_quiz_chain
    ep_pc,        \* "request" | "running" | "responded"
    ep_request,   \* the validated QuizPayload, [secret, url]
    ep_response,  \* the HTTP response, [code, body]
    ep_partial,   \* history: the entries of the trace when the deadline expired
    \* ---- call_aipipe_api, called on its own
    api_pc,       \* "idle" | "try" | "sleep" | "returned" | "raised"
    api_attempt,  \* `attempt` of `for attempt in range(3)`
    api_out,      \* what the call returned, or that it raised
    api_err,      \* the exception the call raised, "" if none
    api_log,      \* history: the POSTs and the sleeps of the call, in order
    \* ---- two runs of solve_quiz_chain on one event loop
    run_script,   \* per run: what its collaborators answer, step by step
    run_pc,       \* per run: "off" | "render" | "planner" | "executor" | "post" | "done"
    run_i,        \* per run: iterations of `for i in range(12)` begun
    run_attempt,  \* per run: `attempt` of the model call it is in
    frames,       \* per frame: the locals steps, current and body["messages"]
    run_requests, \* history, per run: body["messages"] of each request it sent
    run_returned  \* per run: the trace solve_quiz_chain returned

gatherVars == <<targets, pdf_left, context_data, downloads, skipped>>

chainVars == <<pc, loop_i, current, steps, page, plan_info, result, submit_url, step,
               http, posted, raised, gatherVars, executor_prompt, ops>>

findVars == <<fs_pc, fs_html, fs_links, fs_result>>

llmVars == <<llm_pc, llm_attempt, llm_messages, llm_text, llm_result, llm_sent,
             llm_failed, llm_requests, llm_outcomes>>

repairVars == <<rp_pc, rp_value, rp_compact, rp_defects, rp_result>>

\* the variables of the parts added to the three above
quizVars == <<ep_pc, ep_request, ep_response, ep_partial>>

apiVars == <<api_pc, api_attempt, api_out, api_err, api_log>>

twoVars == <<run_script, run_pc, run_i, run_attempt, frames, run_requests, run_returned>>

auxVars == <<repairVars, quizVars, apiVars, twoVars>>

vars == <<chainVars, findVars, llmVars, auxVars>>

(***************************************************************************)
(* Bounds of the model.                                                    *)
(***************************************************************************)
MaxHtmlLen == 4
MaxTextLen == 3
MaxStrLen == 3

(***************************************************************************)
(* Characters and strings.                                                 *)
(***************************************************************************)
\* Python's None where a URL is expected; a URL is a sequence of tokens.
None == <<"None">>

\* \s of the regular expressions, and what str.strip() removes
IsSpace(c) == c \in {" ", "\n"}

\* ["'] of the regular expressions
IsQuote(c) == c \in {"\"", "'"}

\* [A-Za-z0-9\.\-:/\?\&_=%]: every token made of such characters only
IsUrlChar(c) == c \in {"action=", "submit", "Submit", "/", "http://", "https://",
                       "host", "quiz", "x", "a", "1", "null", ":",
                       "data", ".csv", ".pdf", ".PDF", "?"}

\* `"submit" in s` (case-sensitive)
ContainsSubmit(s) == \E i \in 1..Len(s) : s[i] = "submit"

\* str.lower()
Lower(s) ==
    [i \in 1..Len(s) |-> IF s[i] = "Submit" THEN "submit"
                         ELSE IF s[i] = ".PDF" THEN ".pdf"
                         ELSE s[i]]

RECURSIVE LStrip(_)
LStrip(s) == IF s # <<>> /\ IsSpace(Head(s)) THEN LStrip(Tail(s)) ELSE s

RECURSIVE RStrip(_)
RStrip(s) == IF s # <<>> /\ IsSpace(s[Len(s)]) THEN RStrip(SubSeq(s, 1, Len(s) - 1)) ELSE s

\* str.strip()
Strip(s) == RStrip(LStrip(s))

(***************************************************************************)
(* URL normalisation.                                                      *)
(***************************************************************************)
\* urllib.parse.urljoin(base, raw) for a base "http://" host "/" ... and a
\* relative reference: a network-path reference ("//..."), an absolute path
\* ("/...") or a relative path.
UrlOrigin(base) == SubSeq(base, 1, 2)

UrlDir(base) ==
    LET slashes == {i \in 3..Len(base) : base[i] = "/"}
    IN  IF slashes = {} THEN UrlOrigin(base) \o <<"/">>
        ELSE SubSeq(base, 1, CHOOSE i \in slashes : \A j \in slashes : j <= i)

urljoin(base, raw) ==
    IF raw = <<>> THEN base
    ELSE IF Len(raw) >= 2 /\ raw[1] = "/" /\ raw[2] = "/"
         THEN <<base[1]>> \o SubSeq(raw, 3, Len(raw))
    ELSE IF raw[1] = "/" THEN UrlOrigin(base) \o raw
    ELSE UrlDir(base) \o raw

normalize_url(base, raw) ==
    IF raw = <<>> THEN None
    ELSE LET r == Strip(raw)
         IN  IF r # <<>> /\ Head(r) \in {"http://", "https://"} THEN r
             ELSE urljoin(base, r)

(***************************************************************************)
(* Submission-endpoint discovery.                                          *)
(***************************************************************************)
\* for link in links: if "submit" in link.lower(): the first such index, or 0
FirstSubmitLink(links) ==
    LET hits == {i \in 1..Len(links) : ContainsSubmit(Lower(links[i]))}
    IN  IF hits = {} THEN 0 ELSE CHOOSE i \in hits : \A j \in hits : i <= j

\* re.findall(r"action=[\"'](.*?)[\"']", html): the captured groups of the
\* non-overlapping matches, left to right; `.` matches no newline.
RECURSIVE ActionScan(_, _)
ActionScan(html, i) ==
    IF i > Len(html) THEN <<>>
    ELSE IF html[i] = "action=" /\ i + 1 <= Len(html) /\ IsQuote(html[i + 1])
         THEN LET closes == {j \in (i + 2)..Len(html) : IsQuote(html[j])}
              IN  IF closes = {} THEN ActionScan(html, i + 1)
                  ELSE LET j == CHOOSE c \in closes : \A d \in closes : c <= d
                       IN  IF \E k \in (i + 2)..(j - 1) : html[k] = "\n"
                           THEN ActionScan(html, i + 1)
                           ELSE <<SubSeq(html, i + 2, j - 1)>> \o ActionScan(html, j + 1)
         ELSE ActionScan(html, i + 1)

ActionValues(html) == ActionScan(html, 1)

\* for m in matches: if "submit" in m: the first such index, or 0
FirstSubmitAction(matches) ==
    LET hits == {i \in 1..Len(matches) : ContainsSubmit(matches[i])}
    IN  IF hits = {} THEN 0 ELSE CHOOSE i \in hits : \A j \in hits : i <= j

\* re.findall(r"([A-Za-z0-9\.\-:/\?\&_=%]+submit[^\s\"']*)", html)[0], the
\* leftmost match, or <<>> when there is none: one URL character or more,
\* "submit", then everything up to the next space or quote.
UrlTokenStarts(html) ==
    {i \in 1..Len(html) :
        \E j \in (i + 1)..Len(html) :
            /\ html[j] = "submit"
            /\ \A k \in i..(j - 1) : IsUrlChar(html[k])}

FirstUrlToken(html) ==
    IF UrlTokenStarts(html) = {} THEN <<>>
    ELSE LET i == CHOOSE s \in UrlTokenStarts(html) : \A r \in UrlTokenStarts(html) : s <= r
             stops == {k \in i..Len(html) : IsSpace(html[k]) \/ IsQuote(html[k])}
             e == IF stops = {} THEN Len(html)
                  ELSE (CHOOSE k \in stops : \A m \in stops : k <= m) - 1
         IN  SubSeq(html, i, e)

\* find_submit with the form actions looked at before the links
find_submit_ActionsFirst(html, links, base_url) ==
    IF FirstSubmitAction(ActionValues(html)) # 0
    THEN normalize_url(base_url, ActionValues(html)[FirstSubmitAction(ActionValues(html))])
    ELSE IF FirstSubmitLink(links) # 0
    THEN normalize_url(base_url, links[FirstSubmitLink(links)])
    ELSE IF FirstUrlToken(html) # <<>>
    THEN normalize_url(base_url, FirstUrlToken(html))
    ELSE None

find_submit(html, links, base_url) ==
    IF FirstSubmitLink(links) # 0
    THEN normalize_url(base_url, links[FirstSubmitLink(links)])
    ELSE IF FirstSubmitAction(ActionValues(html)) # 0
    THEN normalize_url(base_url, ActionValues(html)[FirstSubmitAction(ActionValues(html))])
    ELSE IF FirstUrlToken(html) # <<>>
    THEN normalize_url(base_url, FirstUrlToken(html))
    ELSE None

(***************************************************************************)
(* JSON data: [t |-> tag, v |-> payload].  A string's payload is its        *)
(* characters, a number's its digits, an array's its elements, an object's  *)
(* its members [k |-> key characters, val |-> value] in insertion order.    *)
(***************************************************************************)
JNull == [t |-> "null", v |-> <<>>]
JTrue == [t |-> "bool", v |-> <<"true">>]
JFalse == [t |-> "bool", v |-> <<"false">>]
JNum(d) == [t |-> "num", v |-> d]
JStr(s) == [t |-> "str", v |-> s]
JArr(xs) == [t |-> "arr", v |-> xs]
JObj(ms) == [t |-> "obj", v |-> ms]
Member(key, value) == [k |-> key, val |-> value]

\* isinstance(x, dict)
IsDict(x) == x.t = "obj"

\* `key in d` for a dict d
HasKey(d, key) == \E i \in 1..Len(d.v) : d.v[i].k = key

\* d[key] for a dict d that has the key
Get(d, key) == d.v[CHOOSE i \in 1..Len(d.v) : d.v[i].k = key].val

\* d.get(key): None when the key is absent
GetOr(d, key) == IF HasKey(d, key) THEN Get(d, key) ELSE JNull

\* d[key] = value: a key already there keeps its place
Put(ms, key, value) ==
    IF \E i \in 1..Len(ms) : ms[i].k = key
    THEN [i \in 1..Len(ms) |-> IF ms[i].k = key THEN Member(key, value) ELSE ms[i]]
    ELSE Append(ms, Member(key, value))

\* bool(x): None, False, 0, "", [] and {} are falsy
Truthy(x) ==
    CASE x.t = "null" -> FALSE
      [] x.t = "bool" -> x.v = <<"true">>
      [] x.t = "num"  -> \E i \in 1..Len(x.v) : x.v[i] # "0"
      [] OTHER        -> x.v # <<>>

(***************************************************************************)
(* json.dumps and json.loads over tokens.  The escapes \" and \n are one    *)
(* token each.                                                              *)
(***************************************************************************)
EscQuote == "\\\""
EscNewline == "\\n"

\* the control character \x01, one token, and its escape \u0001
Ctrl == "\\x01"
EscCtrl == "\\u0001"

\* [\x00-\x1F]
IsControl(c) == c \in {"\n", Ctrl}

IsDigit(c) == c \in {"0", "1"}

EscapeChar(c) ==
    IF c = "\"" THEN EscQuote
    ELSE IF c = "\n" THEN EscNewline
    ELSE IF c = Ctrl THEN EscCtrl
    ELSE c

DumpsStr(s) == <<"\"">> \o [i \in 1..Len(s) |-> EscapeChar(s[i])] \o <<"\"">>

\* json.dumps(x, separators=(isep, ksep))
RECURSIVE Dumps(_, _, _)
RECURSIVE DumpsItems(_, _, _, _)
DumpsItems(xs, i, isep, ksep) ==
    IF i > Len(xs) THEN <<>>
    ELSE (IF i > 1 THEN isep ELSE <<>>) \o Dumps(xs[i], isep, ksep)
         \o DumpsItems(xs, i + 1, isep, ksep)

RECURSIVE DumpsMembers(_, _, _, _)
DumpsMembers(ms, i, isep, ksep) ==
    IF i > Len(ms) THEN <<>>
    ELSE (IF i > 1 THEN isep ELSE <<>>) \o DumpsStr(ms[i].k) \o ksep
         \o Dumps(ms[i].val, isep, ksep) \o DumpsMembers(ms, i + 1, isep, ksep)

Dumps(x, isep, ksep) ==
    CASE x.t = "null" -> <<"null">>
      [] x.t = "bool" -> x.v
      [] x.t = "num"  -> x.v
      [] x.t = "str"  -> DumpsStr(x.v)
      [] x.t = "arr"  -> <<"[">> \o DumpsItems(x.v, 1, isep, ksep) \o <<"]">>
      [] x.t = "obj"  -> <<"{">> \o DumpsMembers(x.v, 1, isep, ksep) \o <<"}">>

\* json.dumps(x): the default separators ", " and ": "
json_dumps(x) == Dumps(x, <<",", " ">>, <<":", " ">>)

\* json.dumps(x, separators=(",", ":"))
json_dumps_compact(x) == Dumps(x, <<",">>, <<":">>)

\* A parse step's outcome: the value and the text left, or a failure
\* (json.JSONDecodeError).
ParseOk(value, rest) == [ok |-> TRUE, val |-> value, rest |-> rest]
ParseFail == [ok |-> FALSE, val |-> JNull, rest |-> <<>>]

\* the digits at the head of s
RECURSIVE DigitRun(_)
DigitRun(s) ==
    IF s # <<>> /\ IsDigit(Head(s)) THEN <<Head(s)>> \o DigitRun(Tail(s)) ELSE <<>>

\* py_scanstring: s follows the opening quote; a raw control character is
\* an error (strict mode)
RECURSIVE ScanString(_, _)
ScanString(s, acc) ==
    IF s = <<>> THEN ParseFail
    ELSE IF Head(s) = "\"" THEN ParseOk(JStr(acc), Tail(s))
    ELSE IF IsControl(Head(s)) THEN ParseFail
    ELSE IF Head(s) = EscQuote THEN ScanString(Tail(s), Append(acc, "\""))
    ELSE IF Head(s) = EscNewline THEN ScanString(Tail(s), Append(acc, "\n"))
    ELSE IF Head(s) = EscCtrl THEN ScanString(Tail(s), Append(acc, Ctrl))
    ELSE ScanString(Tail(s), Append(acc, Head(s)))

RECURSIVE ParseValue(_)
RECURSIVE ParseMembers(_, _)
RECURSIVE ParseElements(_, _)

\* JSONObject, at the quote of the next key
ParseMembers(s, acc) ==
    IF s = <<>> \/ Head(s) # "\"" THEN ParseFail
    ELSE LET key == ScanString(Tail(s), <<>>)
         IN  IF ~key.ok THEN ParseFail
             ELSE LET s1 == LStrip(key.rest)
                  IN  IF s1 = <<>> \/ Head(s1) # ":" THEN ParseFail
                      ELSE LET value == ParseValue(LStrip(Tail(s1)))
                           IN  IF ~value.ok THEN ParseFail
                               ELSE LET s3 == LStrip(value.rest)
                                        ms == Put(acc, key.val.v, value.val)
                                    IN  IF s3 = <<>> THEN ParseFail
                                        ELSE IF Head(s3) = "}" THEN ParseOk(JObj(ms), Tail(s3))
                                        ELSE IF Head(s3) = ","
                                             THEN ParseMembers(LStrip(Tail(s3)), ms)
                                        ELSE ParseFail

\* JSONArray, at the next element
ParseElements(s, acc) ==
    LET value == ParseValue(s)
    IN  IF ~value.ok THEN ParseFail
        ELSE LET s1 == LStrip(value.rest)
                 xs == Append(acc, value.val)
             IN  IF s1 = <<>> THEN ParseFail
                 ELSE IF Head(s1) = "]" THEN ParseOk(JArr(xs), Tail(s1))
                 ELSE IF Head(s1) = "," THEN ParseElements(LStrip(Tail(s1)), xs)
                 ELSE ParseFail

\* scan_once
ParseValue(s) ==
    IF s = <<>> THEN ParseFail
    ELSE CASE Head(s) = "\"" -> ScanString(Tail(s), <<>>)
           [] Head(s) = "{" ->
                LET s1 == LStrip(Tail(s))
                IN  IF s1 # <<>> /\ Head(s1) = "}" THEN ParseOk(JObj(<<>>), Tail(s1))
                    ELSE ParseMembers(s1, <<>>)
           [] Head(s) = "[" ->
                LET s1 == LStrip(Tail(s))
                IN  IF s1 # <<>> /\ Head(s1) = "]" THEN ParseOk(JArr(<<>>), Tail(s1))
                    ELSE ParseElements(s1, <<>>)
           [] Head(s) = "null" -> ParseOk(JNull, Tail(s))
           [] Head(s) = "true" -> ParseOk(JTrue, Tail(s))
           [] Head(s) = "false" -> ParseOk(JFalse, Tail(s))
           [] Head(s) = "NaN" -> ParseOk(JNum(<<"NaN">>), Tail(s))
           [] IsDigit(Head(s)) ->
                ParseOk(JNum(DigitRun(s)), SubSeq(s, Len(DigitRun(s)) + 1, Len(s)))
           [] OTHER -> ParseFail

\* json.loads(text): one value, whitespace around it, nothing else
json_loads(text) ==
    LET value == ParseValue(LStrip(text))
    IN  IF value.ok /\ LStrip(value.rest) = <<>> THEN ParseOk(value.val, <<>>)
        ELSE ParseFail

(***************************************************************************)
(* The repair helpers and the escalation of llm_json.                       *)
(***************************************************************************)
\* re.search(r"\{[\s\S]*\}", text): from the first "{" to the last "}" after
\* it; then json.loads of the match, None (a failure) when it does not parse
try_extract_json(text) ==
    LET opens == {i \in 1..Len(text) : text[i] = "{"}
    IN  IF opens = {} THEN ParseFail
        ELSE LET i == CHOOSE o \in opens : \A p \in opens : o <= p
                 closes == {j \in (i + 1)..Len(text) : text[j] = "}"}
             IN  IF closes = {} THEN ParseFail
                 ELSE json_loads(SubSeq(text, i, CHOOSE c \in closes : \A d \in closes : d <= c))

\* [A-Za-z0-9_]
IsIdentChar(c) == c \in {"a", "x", "0", "1", "null", "true", "false",
                         "host", "quiz", "submit", "Submit"}

\* re.sub(r"[\x00-\x1F]+", "", s)
StripControl(s) == SelectSeq(s, LAMBDA c : ~IsControl(c))

\* re.sub(r",\s*}", "}", s) and re.sub(r",\s*]", "]", s): close is "}" or "]"
RECURSIVE DropTrailingComma(_, _)
DropTrailingComma(s, close) ==
    IF s = <<>> THEN <<>>
    ELSE IF Head(s) = "," /\ LStrip(Tail(s)) # <<>> /\ Head(LStrip(Tail(s))) = close
         THEN <<close>> \o DropTrailingComma(Tail(LStrip(Tail(s))), close)
    ELSE <<Head(s)>> \o DropTrailingComma(Tail(s), close)

\* the identifier characters at the head of s
RECURSIVE IdentRun(_)
IdentRun(s) ==
    IF s # <<>> /\ IsIdentChar(Head(s)) THEN <<Head(s)>> \o IdentRun(Tail(s)) ELSE <<>>

\* re.sub(r'(\{|,)\s*([A-Za-z0-9_]+)\s*:', r'\1 "\2":', s)
RECURSIVE QuoteBareKeys(_)
QuoteBareKeys(s) ==
    IF s = <<>> THEN <<>>
    ELSE LET s1 == LStrip(Tail(s))
             id == IdentRun(s1)
             s2 == LStrip(SubSeq(s1, Len(id) + 1, Len(s1)))
         IN  IF Head(s) \in {"{", ","} /\ id # <<>> /\ s2 # <<>> /\ Head(s2) = ":"
             THEN <<Head(s), " ", "\"">> \o id \o <<"\"", ":">> \o QuoteBareKeys(Tail(s2))
             ELSE <<Head(s)>> \o QuoteBareKeys(Tail(s))

RepairText(text) ==
    QuoteBareKeys(DropTrailingComma(DropTrailingComma(StripControl(Strip(text)), "}"), "]"))

\* json.loads of the repaired text, None (a failure) when it does not parse
repair_json_string(text) == json_loads(RepairText(text))

\* llm_json with the repair tried before the exact parse
llm_json_RepairFirst(text) ==
    IF repair_json_string(text).ok /\ Truthy(repair_json_string(text).val)
    THEN repair_json_string(text).val
    ELSE IF json_loads(text).ok THEN json_loads(text).val
    ELSE IF try_extract_json(text).ok /\ Truthy(try_extract_json(text).val)
         THEN try_extract_json(text).val
    ELSE JObj(<<>>)

\* llm_json once ask_llm_for_answer has returned text: the exact parse, then
\* the extraction if it yields a truthy value, then the repair if it yields
\* a truthy value, then the empty dict
llm_json_of(text) ==
    IF json_loads(text).ok THEN json_loads(text).val
    ELSE IF try_extract_json(text).ok /\ Truthy(try_extract_json(text).val)
         THEN try_extract_json(text).val
    ELSE IF repair_json_string(text).ok /\ Truthy(repair_json_string(text).val)
         THEN repair_json_string(text).val
    ELSE JObj(<<>>)

(***************************************************************************)
(* ask_llm_for_answer: from the provider's reply to the candidate text.     *)
(***************************************************************************)
\* for attempt in range(3)
MaxAttempts == 3

\* call_aipipe_api's outcomes: it raised (its own retries are used up, or
\* the body is no JSON), or it returned the JSON value resp
ApiRaises == [raises |-> TRUE, resp |-> JNull]
ApiReturns(resp) == [raises |-> FALSE, resp |-> resp]

\* x[key] for a dict that has the key; anything else raises
Subscript(x, key) ==
    IF x.ok /\ IsDict(x.val) /\ HasKey(x.val, key)
    THEN ParseOk(Get(x.val, key), <<>>) ELSE ParseFail

\* x[0] for a list that has an element; anything else raises here or at the
\* subscript that follows
First(x) ==
    IF x.ok /\ x.val.t = "arr" /\ x.val.v # <<>>
    THEN ParseOk(x.val.v[1], <<>>) ELSE ParseFail

\* resp["choices"][0]["message"]["content"]
ChoicesContent(resp) ==
    Subscript(Subscript(First(Subscript(ParseOk(resp, <<>>), <<"choices">>)),
                        <<"message">>), <<"content">>)

\* `"choices" in resp`: a key of a dict, an element of a list, a substring
\* of a str
InResp(resp) ==
    CASE resp.t = "obj" -> HasKey(resp, <<"choices">>)
      [] resp.t = "arr" -> \E n \in 1..Len(resp.v) : resp.v[n] = JStr(<<"choices">>)
      [] resp.t = "str" -> \E n \in 1..Len(resp.v) : resp.v[n] = "choices"
      [] OTHER -> FALSE

\* lines 74-82 of one iteration: the candidate text `out` when the iteration
\* gets as far as `if out.strip()`, a failure when anything before raised
\* (the call, `in` on a resp that is no container, a subscript, .strip() on
\* a content that is no str)
CandidateText(reply) ==
    IF reply.raises \/ reply.resp.t \in {"null", "bool", "num"} THEN ParseFail
    ELSE IF InResp(reply.resp)
         THEN IF ChoicesContent(reply.resp).ok /\ ChoicesContent(reply.resp).val.t = "str"
              THEN ParseOk(ChoicesContent(reply.resp).val.v, <<>>)
              ELSE ParseFail
    ELSE ParseOk(json_dumps(reply.resp), <<>>)

\* how an iteration ends: in the except branch, with blank text and so
\* without a return, or with the return of the text
AttemptOutcome(reply) ==
    IF ~CandidateText(reply).ok THEN "raised"
    ELSE IF Strip(CandidateText(reply).val) = <<>> THEN "blank"
    ELSE "text"

\* the return without the test of out.strip()
ReturnsText_EvenEmpty(reply) == CandidateText(reply).ok

\* `if out.strip(): return out`
ReturnsText(reply) == CandidateText(reply).ok /\ Strip(CandidateText(reply).val) # <<>>

(***************************************************************************)
(* The step solver and the chain driver.                                    *)
(***************************************************************************)
\* for i in range(12)
MaxSteps == 12

KeyUrl == <<"url">>
KeyCorrect == <<"correct">>
KeyAnswer == <<"answer">>
KeyPayload == <<"submit_payload">>

\* The values of a local that holds nothing yet.
NoValue == [t |-> "unset", v |-> <<>>]
NoPage == [html |-> <<>>, links |-> <<>>]
NoStep == [unset |-> TRUE]
NoHttp == [status |-> 0, body |-> NoValue]

\* The step results solve_single builds, and the one the chain driver
\* builds from an exception.
Submitted(resp, answer) == [submitted |-> TRUE, response |-> resp, answer |-> answer]
SubmitFailed(msg, answer) == [submitted |-> TRUE, error |-> msg, answer |-> answer]
Unsubmitted(res) == [submitted |-> FALSE, result |-> res]
StepError(msg) == [error |-> msg]

\* An outcome of (a part of) solve_single: it returned a step result, or
\* it raised and str(e) is msg.
Returned(st) == [raises |-> FALSE, step |-> st, msg |-> ""]
Raises(m) == [raises |-> TRUE, step |-> NoStep, msg |-> m]

\* solve_single, lines 229-230: result.get('answer') on the Executor's
\* result raises AttributeError unless it is a dict
AfterExecutor(res) ==
    IF IsDict(res) THEN Returned(NoStep)
    ELSE Raises("object has no attribute 'get'")

\* line 237 without the test of "submit_payload"
WillSubmit_UrlOnly(url, res) == url # None /\ url # <<>>

\* solve_single, line 237: `if submit_url and "submit_payload" in result`
WillSubmit(url, res) == url # None /\ url # <<>> /\ HasKey(res, KeyPayload)

\* solve_single, lines 243-247, once the POST has returned: the status is
\* not looked at; r.json() or else r.text is the response; result["answer"]
\* raises KeyError in the try, in its bare except and so out of the
\* `except Exception` clause too
AfterPost(res, response) ==
    IF HasKey(res, KeyAnswer)
    THEN Returned(Submitted(response.body, Get(res, KeyAnswer)))
    ELSE Raises("'answer'")

\* solve_single, lines 248-249, the POST raised: result["answer"] again
AfterPostError(res, msg) ==
    IF HasKey(res, KeyAnswer)
    THEN Returned(SubmitFailed(msg, Get(res, KeyAnswer)))
    ELSE Raises("'answer'")

\* solve_quiz_chain, lines 264-268: an exception of solve_single becomes
\* the step {"error": str(e)}
Caught(outcome) == IF outcome.raises THEN StepError(outcome.msg) ELSE outcome.step

\* the next URL, falling back to the step's own URL
NextUrl_KeepsCurrent(st) ==
    IF "response" \in DOMAIN st /\ IsDict(st.response) /\ Truthy(GetOr(st.response, KeyUrl))
    THEN GetOr(st.response, KeyUrl)
    ELSE current

\* solve_quiz_chain, lines 272-274: the next URL, from a dict-shaped
\* response only
NextUrl(st) ==
    IF "response" \in DOMAIN st /\ IsDict(st.response)
    THEN GetOr(st.response, KeyUrl)
    ELSE JNull

\* the breaks, with an incorrect answer stopping the chain whatever the URL
ChainBreaks_StopsOnIncorrect(st) ==
    \/ /\ "response" \in DOMAIN st
       /\ IsDict(st.response)
       /\ GetOr(st.response, KeyCorrect) = JFalse
    \/ ~Truthy(NextUrl(st))

\* the explicit stop only, without `if not next_url: break`
ChainBreaks_ExplicitOnly(st) ==
    /\ "response" \in DOMAIN st
    /\ IsDict(st.response)
    /\ GetOr(st.response, KeyCorrect) = JFalse
    /\ ~Truthy(NextUrl(st))

\* solve_quiz_chain, lines 273-282: the two breaks
ChainBreaks(st) ==
    \/ /\ "response" \in DOMAIN st
       /\ IsDict(st.response)
       /\ GetOr(st.response, KeyCorrect) = JFalse
       /\ ~Truthy(NextUrl(st))
    \/ ~Truthy(NextUrl(st))

\* the loop with one iteration too many
LoopContinues_OffByOne(n) == n <= MaxSteps

\* for i in range(12): another iteration begins
LoopContinues(n) == n < MaxSteps

(***************************************************************************)
(* The pages find_submit is called on when on its own: any HTML over a few  *)
(* tokens, any of a few link lists.                                         *)
(***************************************************************************)
BaseUrl == <<"http://", "host", "/", "quiz">>

HtmlTokens == {"action=", "\"", "submit", "Submit", "/", " ", "http://"}

\* how the HTML begins: with nothing, or with a form action that is no
\* submission endpoint
HtmlSeeds == { <<>>, <<"action=", "\"", "/", "\"", " ">> }

LinkLists ==
    { <<>>,
      << <<"/", "x">> >>,
      << <<"/", "x">>, <<"/", "Submit">>, <<"http://", "submit">> >>,
      << <<" ", "submit", " ">> >> }

LlmIdle ==
    /\ llm_pc = "off"
    /\ llm_attempt = 0
    /\ llm_messages = <<>>
    /\ llm_text = <<>>
    /\ llm_result = NoValue
    /\ llm_sent = NoValue
    /\ llm_failed = 0
    /\ llm_requests = <<>>
    /\ llm_outcomes = <<>>

FindIdle ==
    /\ fs_pc = "off"
    /\ fs_html = <<>>
    /\ fs_links = <<>>
    /\ fs_result = None

RepairIdle ==
    /\ rp_pc = "off"
    /\ rp_value = NoValue
    /\ rp_compact = FALSE
    /\ rp_defects = {}
    /\ rp_result = NoValue

NoRequest == [secret |-> "", url |-> <<>>]
NoResponse == [code |-> 0, body |-> [unset |-> TRUE]]

QuizIdle ==
    /\ ep_pc = "off"
    /\ ep_request = NoRequest
    /\ ep_response = NoResponse
    /\ ep_partial = 0

ApiIdle ==
    /\ api_pc = "off"
    /\ api_attempt = 0
    /\ api_out = NoValue
    /\ api_err = ""
    /\ api_log = <<>>

Runs == {1, 2}

NoFrame == [steps |-> <<>>, current |-> JNull, messages |-> <<>>]

TwoIdle ==
    /\ run_script = [r \in Runs |-> <<>>]
    /\ run_pc = [r \in Runs |-> "off"]
    /\ run_i = [r \in Runs |-> 0]
    /\ run_attempt = [r \in Runs |-> 0]
    /\ frames = [f \in Runs |-> NoFrame]
    /\ run_requests = [r \in Runs |-> <<>>]
    /\ run_returned = [r \in Runs |-> <<>>]

AuxIdle == RepairIdle /\ QuizIdle /\ ApiIdle /\ TwoIdle


(***************************************************************************)
(* The context of a step: the linked files and the PDFs.                    *)
(***************************************************************************)
\* extensions = {".csv", ".txt", ".json", ".log", ".xml", ".md"}
Extensions == {".csv", ".txt", ".json", ".log", ".xml", ".md"}

\* s.endswith(ext), an extension being one token
EndsWith(s, ext) == s # <<>> /\ s[Len(s)] = ext

\* full_url.split("?")[0]
BeforeQuery(url) ==
    LET marks == {i \in 1..Len(url) : url[i] = "?"}
    IN  IF marks = {} THEN url
        ELSE SubSeq(url, 1, (CHOOSE i \in marks : \A j \in marks : i <= j) - 1)

\* lines 118-124 and set(targets): the absolute URLs of the links whose path
\* ends in one of the extensions
ResourceTargets(base_url, links) ==
    { normalize_url(base_url, links[i]) : i \in
        { j \in 1..Len(links) :
            /\ normalize_url(base_url, links[j]) # None
            /\ normalize_url(base_url, links[j]) # <<>>
            /\ \E ext \in Extensions :
                  EndsWith(Lower(BeforeQuery(normalize_url(base_url, links[j]))), ext) } }

\* pdf_links = [l for l in links if l.lower().endswith(".pdf")]
PdfLinks(links) == SelectSeq(links, LAMBDA l : EndsWith(Lower(l), ".pdf"))

\* what is added to the context for a downloaded file (its first 15000
\* characters) and for a PDF (its text, or the annotation of the error)
FileEntry(url) == [kind |-> "file", url |-> url, text |-> "content"]
PdfEntry(url, readable) ==
    [kind |-> "pdf", url |-> url,
     text |-> IF readable THEN "content" ELSE "[Error reading PDF]"]

\* an entry of the history of downloads
Download(kind, url, ok) == [kind |-> kind, url |-> url, ok |-> ok]

\* a download without the try/except around it
FetchOutcome_Propagates(ok) == IF ok THEN Returned(NoStep) ELSE Raises("download failed")

\* lines 127-135: `except Exception` prints and goes on, nothing is raised
FetchOutcome(ok) == Returned(NoStep)

\* the Executor's prompt without the plan
ExecutorPrompt_NoPlan(plan, context) == [plan |-> NoValue, context |-> context]

\* lines 197-227: the Executor's prompt, of the plan and the context (and
\* of the HTML)
ExecutorPrompt(plan, context) == [plan |-> plan, context |-> context]

(***************************************************************************)
(* A run of solve_quiz_chain against a quiz server and a model that may do  *)
(* anything out of a few pages, Executor results and POST outcomes.         *)
(***************************************************************************)
StartUrl == BaseUrl
UrlX == <<"http://", "host", "/", "x">>

\* render_page's results: a page without a submission endpoint, one with a
\* submit link, one with a form action
Pages ==
    { [html |-> <<"/", "x">>, links |-> <<>>],
      [html |-> <<>>, links |-> << <<"/", "x">>, <<"/", "Submit">> >>],
      [html |-> <<"action=", "\"", "/", "submit", "\"">>, links |-> << <<"/", "x">> >>],
      [html |-> <<>>,
       links |-> << <<"data", ".csv">>, <<"/", "data", ".csv">>,
                    <<"x", ".csv", "?", "x", ".pdf">>, <<"x", ".PDF">>,
                    <<"/", "submit">> >>] }

\* llm_json's results for the Planner prompt
PlannerResults == { JObj(<<>>), JObj(<<Member(<<"plan_steps">>, JArr(<<>>))>>) }

\* llm_json's results for the Executor prompt: whatever JSON the model wrote
Payload == JObj(<<Member(KeyAnswer, JNum(<<"1">>))>>)

ExecutorResults ==
    { JObj(<<Member(KeyAnswer, JNum(<<"1">>)), Member(KeyPayload, Payload)>>),
      JObj(<<Member(KeyPayload, Payload)>>),
      JObj(<<Member(KeyAnswer, JNum(<<"1">>))>>),
      JObj(<<>>),
      JObj(<<Member(KeyAnswer, JNum(<<"NaN">>))>>),
      JArr(<<JStr(KeyPayload)>>) }

\* the submission POST's responses: any status, a body that is JSON (r.json())
\* or not (r.text, a str)
Bodies ==
    { JObj(<<Member(KeyCorrect, JFalse), Member(KeyUrl, JStr(UrlX))>>),
      JObj(<<Member(KeyCorrect, JTrue), Member(KeyUrl, JStr(StartUrl))>>),
      JObj(<<Member(KeyCorrect, JFalse)>>),
      JObj(<<Member(KeyCorrect, JTrue)>>),
      JObj(<<Member(KeyCorrect, JFalse), Member(KeyUrl, JStr(<<>>))>>),
      JObj(<<Member(KeyUrl, JNull)>>),
      JArr(<<JStr(UrlX)>>),
      JStr(<<"x">>) }

HttpResponses == [status : {200, 400}, body : Bodies]

\* the quiz server's answers to a submission for the quiz at url: every
\* quiz may answer anything, but only the first sends back to the start
BackToStart == JObj(<<Member(KeyCorrect, JTrue), Member(KeyUrl, JStr(StartUrl))>>)

ResponsesAt(url) == {r \in HttpResponses : url = JStr(StartUrl) \/ r.body # BackToStart}

\* the locals of solve_single that hold nothing yet
NoPrompt == [plan |-> NoValue, context |-> <<>>]

StepFresh ==
    /\ targets = {}
    /\ pdf_left = <<>>
    /\ context_data = <<>>
    /\ executor_prompt = NoPrompt
    /\ downloads = <<>>
    /\ skipped = FALSE
    /\ ops = <<>>

ChainIdle ==
    /\ pc = "off"
    /\ loop_i = 0
    /\ current = JStr(StartUrl)
    /\ steps = <<>>
    /\ page = NoPage
    /\ plan_info = NoValue
    /\ result = NoValue
    /\ submit_url = None
    /\ step = NoStep
    /\ http = NoHttp
    /\ posted = FALSE
    /\ raised = ""
    /\ StepFresh

Init ==
    /\ pc = "loop"
    /\ loop_i = 0
    /\ current = JStr(StartUrl)
    /\ steps = <<>>
    /\ page = NoPage
    /\ plan_info = NoValue
    /\ result = NoValue
    /\ submit_url = None
    /\ step = NoStep
    /\ http = NoHttp
    /\ posted = FALSE
    /\ raised = ""
    /\ StepFresh
    /\ FindIdle
    /\ LlmIdle
    /\ AuxIdle

\* for i in range(12): the next iteration begins, solve_single is called
StartStep ==
    /\ pc = "loop"
    /\ LoopContinues(loop_i)
    /\ loop_i' = loop_i + 1
    /\ pc' = "render"
    /\ page' = NoPage
    /\ plan_info' = NoValue
    /\ result' = NoValue
    /\ submit_url' = None
    /\ step' = NoStep
    /\ http' = NoHttp
    /\ posted' = FALSE
    /\ raised' = ""
    /\ targets' = {}
    /\ pdf_left' = <<>>
    /\ context_data' = <<>>
    /\ executor_prompt' = NoPrompt
    /\ downloads' = <<>>
    /\ skipped' = FALSE
    /\ ops' = <<>>
    /\ UNCHANGED <<current, steps, findVars, llmVars, auxVars>>

\* the range is exhausted: return steps
ChainReturn ==
    /\ pc = "loop"
    /\ ~LoopContinues(loop_i)
    /\ pc' = "done"
    /\ UNCHANGED <<loop_i, current, steps, page, plan_info, result, submit_url, step,
                   http, posted, raised, gatherVars, executor_prompt, ops,
                   findVars, llmVars, auxVars>>

\* the step's end without the try/except: an exception leaves the chain driver
StepEnds_Propagates(o) ==
    /\ step' = o.step
    /\ raised' = (IF o.raises THEN o.msg ELSE "")
    /\ pc' = (IF o.raises THEN "crashed" ELSE "append")

\* solve_single raised o.msg, or returned o.step: the chain driver's
\* try/except makes it the step
StepEnds(o) ==
    /\ step' = Caught(o)
    /\ raised' = (IF o.raises THEN o.msg ELSE "")
    /\ pc' = "append"

\* html, text, links = await render_page(quiz_url)
RenderPage ==
    /\ pc = "render"
    /\ \E p \in Pages : page' = p
    /\ pc' = "gather"
    /\ ops' = Append(ops, "render")
    /\ UNCHANGED <<loop_i, current, steps, plan_info, result, submit_url, step,
                   http, posted, raised, gatherVars, executor_prompt,
                   findVars, llmVars, auxVars>>

\* render_page raises (the browser does not launch, the page is gone)
RenderFails ==
    /\ pc = "render"
    /\ StepEnds(Raises("render failed"))
    /\ ops' = Append(ops, "render")
    /\ UNCHANGED <<loop_i, current, steps, page, plan_info, result, submit_url,
                   http, posted, gatherVars, executor_prompt, findVars, llmVars, auxVars>>

\* fetch_linked_resources, lines 115-124: the targets are chosen
GatherContext ==
    /\ pc = "gather"
    /\ targets' = ResourceTargets(current.v, page.links)
    /\ pc' = "resources"
    /\ ops' = Append(ops, "resources")
    /\ UNCHANGED <<loop_i, current, steps, page, plan_info, result, submit_url, step,
                   http, posted, raised, pdf_left, context_data, downloads, skipped,
                   executor_prompt, findVars, llmVars, auxVars>>

\* fetch_linked_resources, lines 126-135: one URL of set(targets), in any
\* order, is downloaded; its text is added, or the failure is skipped
FetchResource ==
    /\ pc = "resources"
    /\ \E url \in targets, ok \in BOOLEAN :
        /\ targets' = targets \ {url}
        /\ downloads' = Append(downloads, Download("file", url, ok))
        /\ skipped' = (skipped \/ ~ok)
        /\ IF FetchOutcome(ok).raises
           THEN /\ StepEnds(FetchOutcome(ok))
                /\ UNCHANGED context_data
           ELSE /\ context_data' =
                      (IF ok THEN Append(context_data, FileEntry(url)) ELSE context_data)
                /\ UNCHANGED <<pc, step, raised>>
    /\ UNCHANGED <<loop_i, current, steps, page, plan_info, result, submit_url,
                   http, posted, pdf_left, executor_prompt, ops, findVars, llmVars, auxVars>>

\* fetch_linked_resources returns; line 152: pdf_links
StartPdfs ==
    /\ pc = "resources"
    /\ targets = {}
    /\ pdf_left' = PdfLinks(page.links)
    /\ pc' = "pdfs"
    /\ ops' = Append(ops, "pdfs")
    /\ UNCHANGED <<loop_i, current, steps, page, plan_info, result, submit_url, step,
                   http, posted, raised, targets, context_data, downloads, skipped,
                   executor_prompt, findVars, llmVars, auxVars>>

\* lines 153-160, one PDF link: the download fails and the link is skipped,
\* or the text of the PDF is added, which is an error annotation when the
\* PDF cannot be read
FetchPdf ==
    /\ pc = "pdfs"
    /\ pdf_left # <<>>
    /\ \E how \in {"ok", "unreadable", "failed"} :
        LET purl == normalize_url(current.v, Head(pdf_left))
        IN  /\ downloads' = Append(downloads, Download("pdf", purl, how # "failed"))
            /\ skipped' = (skipped \/ how # "ok")
            /\ context_data' =
                  (IF how = "failed" THEN context_data
                   ELSE Append(context_data, PdfEntry(purl, how = "ok")))
    /\ pdf_left' = Tail(pdf_left)
    /\ UNCHANGED <<pc, loop_i, current, steps, page, plan_info, result, submit_url, step,
                   http, posted, raised, targets, executor_prompt, ops,
                   findVars, llmVars, auxVars>>

\* plan_info = await llm_json(planner_prompt), once the PDF loop is over
CallPlanner ==
    /\ pc = "pdfs"
    /\ pdf_left = <<>>
    /\ \E r \in PlannerResults : plan_info' = r
    /\ pc' = "execute"
    /\ ops' = Append(ops, "planner")
    /\ UNCHANGED <<loop_i, current, steps, page, result, submit_url, step,
                   http, posted, raised, gatherVars, executor_prompt,
                   findVars, llmVars, auxVars>>

\* result = await llm_json(executor_prompt), the prompt made of the plan
\* and the context; result.get('answer')
CallExecutor ==
    /\ pc = "execute"
    /\ plan_info # NoValue
    /\ executor_prompt' = ExecutorPrompt(plan_info, context_data)
    /\ ops' = Append(ops, "executor")
    /\ \E r \in ExecutorResults :
        /\ result' = r
        /\ IF AfterExecutor(r).raises
           THEN StepEnds(AfterExecutor(r))
           ELSE pc' = "find" /\ UNCHANGED <<step, raised>>
    /\ UNCHANGED <<loop_i, current, steps, page, plan_info, submit_url,
                   http, posted, gatherVars, findVars, llmVars, auxVars>>

\* submit_url = await find_submit(html, links, quiz_url) and line 237: the
\* POST is sent, or the step is returned unsubmitted.  The page, the plan,
\* the context and the prompt are not read again.
FindSubmit ==
    /\ pc = "find"
    /\ submit_url' = find_submit(page.html, page.links, current.v)
    /\ page' = NoPage
    /\ plan_info' = NoValue
    /\ context_data' = <<>>
    /\ executor_prompt' = NoPrompt
    /\ downloads' = <<>>
    /\ IF WillSubmit(submit_url', result)
       THEN /\ posted' = TRUE
            /\ pc' = "post"
            /\ ops' = ops \o <<"find_submit", "post">>
            /\ UNCHANGED <<step, raised>>
       ELSE /\ StepEnds(Returned(Unsubmitted(result)))
            /\ ops' = Append(ops, "find_submit")
            /\ UNCHANGED posted
    /\ UNCHANGED <<loop_i, current, steps, result, http, targets, pdf_left, skipped,
                   findVars, llmVars, auxVars>>

\* r = await client.post(...) returns, with any status
PostReturns ==
    /\ pc = "post"
    /\ \E r \in ResponsesAt(current) :
        /\ http' = r
        /\ StepEnds(AfterPost(result, r))
    /\ UNCHANGED <<loop_i, current, steps, page, plan_info, result, submit_url,
                   posted, gatherVars, executor_prompt, ops, findVars, llmVars, auxVars>>

\* client.post raises (no connection, a timeout)
PostFails ==
    /\ pc = "post"
    /\ StepEnds(AfterPostError(result, "connect failed"))
    /\ UNCHANGED <<loop_i, current, steps, page, plan_info, result, submit_url,
                   http, posted, gatherVars, executor_prompt, ops,
                   findVars, llmVars, auxVars>>

\* the append moved after `current = next_url`: the entry gets the next URL
AppendStep_AfterAdvance ==
    /\ pc = "append"
    /\ steps' = Append(steps, [url |-> IF ChainBreaks(step) THEN current ELSE NextUrl(step),
                                result |-> step])
    /\ IF ChainBreaks(step)
       THEN pc' = "done" /\ UNCHANGED current
       ELSE pc' = "loop" /\ current' = NextUrl(step)
    /\ UNCHANGED <<loop_i, page, plan_info, result, submit_url, step,
                   http, posted, raised, gatherVars, executor_prompt, ops,
                   findVars, llmVars, auxVars>>

\* steps.append(...), then the breaks, or current = next_url
AppendStep ==
    /\ pc = "append"
    /\ steps' = Append(steps, [url |-> current, result |-> step])
    /\ IF ChainBreaks(step)
       THEN pc' = "done" /\ UNCHANGED current
       ELSE pc' = "loop" /\ current' = NextUrl(step)
    /\ UNCHANGED <<loop_i, page, plan_info, result, submit_url, step,
                   http, posted, raised, gatherVars, executor_prompt, ops,
                   findVars, llmVars, auxVars>>

Next ==
    \/ StartStep
    \/ ChainReturn
    \/ RenderPage
    \/ RenderFails
    \/ GatherContext
    \/ FetchResource
    \/ StartPdfs
    \/ FetchPdf
    \/ CallPlanner
    \/ CallExecutor
    \/ FindSubmit
    \/ PostReturns
    \/ PostFails
    \/ AppendStep

Spec == Init /\ [][Next]_vars

(***************************************************************************)
(* llm_json called on its own, against a provider that may fail or reply    *)
(* anything: any short text, the serialisation of any of a set of JSON      *)
(* values, or a reply without `choices`.                                    *)
(***************************************************************************)
SeqsUpTo(S, n) == UNION {[1..k -> S] : k \in 0..n}

JsonTokens == {"{", "}", "[", "]", ",", ":", "\"", "a", "1", " ", "\n", "null"}

\* the characters of the string values: letters, and what the repair's
\* patterns look for
StringChars == {"a", ",", "}", "{", ":", "\""}

Strings == SeqsUpTo(StringChars, MaxStrLen)

Scalars == {JNull, JTrue, JFalse, JNum(<<"1">>), JNum(<<"1", "0">>)} \cup {JStr(s) : s \in Strings}

FewValues == {JNull, JNum(<<"1">>), JStr(<<",", "}">>), JStr(<<"{", "a", ":">>), JArr(<<>>)}

Keys == {<<"a">>, <<"x", ":">>}

Nested ==
    Scalars \cup {JArr(<<>>), JObj(<<>>)}
            \cup {JArr(<<a>>) : a \in FewValues}
            \cup {JArr(<<a, b>>) : a \in FewValues, b \in FewValues}
            \cup {JObj(<<Member(k, a)>>) : k \in Keys, a \in FewValues}

\* the mappings x of recover(serialize(x))
Mappings ==
    {JObj(<<>>)}
        \cup {JObj(<<Member(k, a)>>) : k \in Keys, a \in Nested}
        \cup {JObj(<<Member(<<"a">>, a), Member(<<"x", ":">>, b)>>) : a \in FewValues, b \in FewValues}

\* what the model writes: [text, sent], sent the value the text serialises
ModelTexts ==
    {[text |-> t, sent |-> NoValue] : t \in SeqsUpTo(JsonTokens, MaxTextLen)}
        \cup {[text |-> <<"{", "\"", "a", "\"", ":", "NaN", "}">>, sent |-> NoValue]}
        \cup {[text |-> json_dumps(x), sent |-> x] : x \in Mappings}
        \cup {[text |-> json_dumps_compact(x), sent |-> x] : x \in Mappings}

ChoicesReply(content) ==
    JObj(<<Member(<<"choices">>,
                  JArr(<<JObj(<<Member(<<"message">>,
                                       JObj(<<Member(<<"content">>, content)>>))>>)>>))>>)

\* call_aipipe_api's outcomes, each with the value the text serialises
ProviderReplies ==
    {[reply |-> ApiReturns(ChoicesReply(JStr(m.text))), sent |-> m.sent] : m \in ModelTexts}
        \cup {[reply |-> r, sent |-> NoValue] :
                r \in {ApiRaises,
                       ApiReturns(ChoicesReply(JNull)),
                       ApiReturns(JObj(<<Member(<<"choices">>, JArr(<<>>))>>)),
                       ApiReturns(JObj(<<Member(<<"error">>, JStr(<<"a">>))>>)),
                       ApiReturns(JArr(<<JNum(<<"1">>)>>)),
                       ApiReturns(JNull)}}

LlmInit ==
    /\ llm_pc = "idle"
    /\ llm_attempt = 0
    /\ llm_messages = <<>>
    /\ llm_text = <<>>
    /\ llm_result = NoValue
    /\ llm_sent = NoValue
    /\ llm_failed = 0
    /\ llm_requests = <<>>
    /\ llm_outcomes = <<>>
    /\ ChainIdle
    /\ FindIdle
    /\ AuxIdle

\* the messages of body["messages"]
SystemMessage ==
    [role |-> "system", content |-> "When asked for JSON, ALWAYS return valid JSON only."]
UserMessage(prompt) == [role |-> "user", content |-> prompt]
NudgeMessage == UserMessage("Return JSON now.")

\* body["messages"] kept from one call to the next (a list shared by the calls)
LlmCall_KeepsHistory ==
    /\ llm_pc \in {"idle", "done"}
    /\ llm_pc' = "ask"
    /\ llm_attempt' = 0
    /\ llm_messages' = (IF llm_messages = <<>> THEN <<SystemMessage, UserMessage("prompt")>>
                        ELSE llm_messages)
    /\ llm_text' = <<>>
    /\ llm_result' = NoValue
    /\ llm_sent' = NoValue
    /\ llm_failed' = 0
    /\ llm_requests' = <<>>
    /\ llm_outcomes' = <<>>
    /\ UNCHANGED <<chainVars, findVars, auxVars>>

\* llm_json(prompt) is called: ask_llm_for_answer builds body["messages"]
LlmCall ==
    /\ llm_pc \in {"idle", "done"}
    /\ llm_pc' = "ask"
    /\ llm_attempt' = 0
    /\ llm_messages' = <<SystemMessage, UserMessage("prompt")>>
    /\ llm_text' = <<>>
    /\ llm_result' = NoValue
    /\ llm_sent' = NoValue
    /\ llm_failed' = 0
    /\ llm_requests' = <<>>
    /\ llm_outcomes' = <<>>
    /\ UNCHANGED <<chainVars, findVars, auxVars>>

\* one iteration of ask_llm_for_answer's loop: the text is returned, or
\* "Return JSON now." is appended
AskAttempt ==
    /\ llm_pc = "ask"
    /\ llm_attempt < MaxAttempts
    /\ llm_requests' = Append(llm_requests, llm_messages)
    /\ \E p \in ProviderReplies :
        /\ llm_outcomes' = Append(llm_outcomes, AttemptOutcome(p.reply))
        /\ IF ReturnsText(p.reply)
           THEN /\ llm_text' = CandidateText(p.reply).val
                /\ llm_sent' = p.sent
                /\ llm_pc' = "parse"
                /\ UNCHANGED <<llm_attempt, llm_messages, llm_failed>>
           ELSE /\ llm_attempt' = llm_attempt + 1
                /\ llm_messages' = Append(llm_messages, NudgeMessage)
                /\ llm_failed' = llm_failed + (IF CandidateText(p.reply).ok THEN 0 ELSE 1)
                /\ UNCHANGED <<llm_pc, llm_text, llm_sent>>
    /\ UNCHANGED <<llm_result, chainVars, findVars, auxVars>>

\* the loop is over: return "{}"
AskGivesUp ==
    /\ llm_pc = "ask"
    /\ llm_attempt >= MaxAttempts
    /\ llm_text' = <<"{", "}">>
    /\ llm_pc' = "parse"
    /\ UNCHANGED <<llm_attempt, llm_messages, llm_result, llm_sent, llm_failed,
                   llm_requests, llm_outcomes, chainVars, findVars, auxVars>>

\* llm_json, lines 93-107
LlmJsonReturns ==
    /\ llm_pc = "parse"
    /\ llm_result' = llm_json_of(llm_text)
    /\ llm_pc' = "done"
    /\ UNCHANGED <<llm_attempt, llm_messages, llm_text, llm_sent, llm_failed,
                   llm_requests, llm_outcomes, chainVars, findVars, auxVars>>

LlmNext == LlmCall \/ AskAttempt \/ AskGivesUp \/ LlmJsonReturns

SpecJson == LlmInit /\ [][LlmNext]_vars

(***************************************************************************)
(* The recovery of a defective serialisation: the text a model writes when  *)
(* it means the mapping x but leaves a comma before a closing brace or      *)
(* bracket, leaves keys without quotes, or leaves control characters in     *)
(* the text, between the tokens or raw inside a string.                     *)
(***************************************************************************)
Defects == {"trailing_comma", "bare_keys", "control_between", "control_raw"}

\* a key that can be written without quotes: [A-Za-z0-9_]+
IsIdentifier(k) == k # <<>> /\ \A i \in 1..Len(k) : IsIdentChar(k[i])

\* a string written with its control characters raw: only the quote escaped
RawStr(s) ==
    <<"\"">> \o [i \in 1..Len(s) |-> IF s[i] = "\"" THEN EscQuote ELSE s[i]] \o <<"\"">>

BrokenStr(s, ds) == IF "control_raw" \in ds THEN RawStr(s) ELSE DumpsStr(s)

BrokenKey(k, ds) == IF "bare_keys" \in ds /\ IsIdentifier(k) THEN k ELSE BrokenStr(k, ds)

\* what follows an opening brace or bracket and an item separator
BrokenGap(ds) == IF "control_between" \in ds THEN <<Ctrl>> ELSE <<>>

\* what precedes the closing brace or bracket of a container with items
BrokenEnd(ds) == IF "trailing_comma" \in ds THEN <<",">> ELSE <<>>

\* the serialisation of x with the defects ds
RECURSIVE Broken(_, _, _, _)
RECURSIVE BrokenItems(_, _, _, _, _)
BrokenItems(xs, i, isep, ksep, ds) ==
    IF i > Len(xs) THEN <<>>
    ELSE (IF i > 1 THEN isep ELSE <<>>) \o BrokenGap(ds) \o Broken(xs[i], isep, ksep, ds)
         \o BrokenItems(xs, i + 1, isep, ksep, ds)

RECURSIVE BrokenMembers(_, _, _, _, _)
BrokenMembers(ms, i, isep, ksep, ds) ==
    IF i > Len(ms) THEN <<>>
    ELSE (IF i > 1 THEN isep ELSE <<>>) \o BrokenGap(ds) \o BrokenKey(ms[i].k, ds) \o ksep
         \o Broken(ms[i].val, isep, ksep, ds) \o BrokenMembers(ms, i + 1, isep, ksep, ds)

Broken(x, isep, ksep, ds) ==
    CASE x.t = "str"  -> BrokenStr(x.v, ds)
      [] x.t = "arr"  ->
            IF x.v = <<>> THEN <<"[", "]">>
            ELSE <<"[">> \o BrokenItems(x.v, 1, isep, ksep, ds) \o BrokenEnd(ds) \o <<"]">>
      [] x.t = "obj"  ->
            IF x.v = <<>> THEN <<"{", "}">>
            ELSE <<"{">> \o BrokenMembers(x.v, 1, isep, ksep, ds) \o BrokenEnd(ds) \o <<"}">>
      [] OTHER -> Dumps(x, isep, ksep)

BrokenText(x, compact, ds) ==
    IF compact THEN Broken(x, <<",">>, <<":">>, ds)
    ELSE Broken(x, <<",", " ">>, <<":", " ">>, ds)

\* x with the control characters dropped from its strings and keys: what
\* the text means once its raw control characters are stripped
RECURSIVE Stripped(_)
Stripped(x) ==
    CASE x.t = "str" -> JStr(StripControl(x.v))
      [] x.t = "arr" -> JArr([i \in 1..Len(x.v) |-> Stripped(x.v[i])])
      [] x.t = "obj" -> JObj([i \in 1..Len(x.v) |->
                                 Member(StripControl(x.v[i].k), Stripped(x.v[i].val))])
      [] OTHER -> x

\* the mapping a text with the defects ds is meant to be
Intended(x, ds) == IF "control_raw" \in ds THEN Stripped(x) ELSE x

\* the mappings: those of the valid JSON, and some with a control character
\* in a string
RepairMappings ==
    Mappings \cup
        { JObj(<<Member(<<"a">>, JStr(<<"a", "\n", "a">>))>>),
          JObj(<<Member(<<"a">>, JNum(<<"1">>)), Member(<<"x">>, JStr(<<"x">>))>>),
          JObj(<<Member(<<"a">>, JNum(<<"1">>)), Member(<<"x">>, JStr(<<"\n">>))>>),
          JObj(<<Member(<<"a">>, JArr(<<JNum(<<"1">>), JStr(<<Ctrl>>)>>))>>) }

RpInit ==
    /\ rp_pc = "input"
    /\ rp_value \in RepairMappings
    /\ rp_compact \in BOOLEAN
    /\ rp_defects = {}
    /\ rp_result = NoValue
    /\ ChainIdle
    /\ FindIdle
    /\ LlmIdle
    /\ QuizIdle
    /\ ApiIdle
    /\ TwoIdle

\* the text gets one defect more
RpBreak ==
    /\ rp_pc = "input"
    /\ \E d \in Defects \ rp_defects : rp_defects' = rp_defects \cup {d}
    /\ UNCHANGED <<rp_pc, rp_value, rp_compact, rp_result, chainVars, findVars, llmVars,
                   quizVars, apiVars, twoVars>>

\* llm_json, lines 93-107, once ask_llm_for_answer has returned the text
RpCall ==
    /\ rp_pc = "input"
    /\ rp_result' = llm_json_of(BrokenText(rp_value, rp_compact, rp_defects))
    /\ rp_pc' = "done"
    /\ UNCHANGED <<rp_value, rp_compact, rp_defects, chainVars, findVars, llmVars,
                   quizVars, apiVars, twoVars>>

RpNext == RpBreak \/ RpCall

SpecRepair == RpInit /\ [][RpNext]_vars

(***************************************************************************)
(* The /quiz endpoint: one request, answered at once or after it ran        *)
(* solve_quiz_chain under asyncio.wait_for.                                 *)
(***************************************************************************)
\* QUIZ_SECRET, as configured
QuizSecret == "s3cret"

\* the payloads FastAPI hands to quiz_endpoint: QuizPayload has validated
\* that secret and url are strings
Requests == [secret : {QuizSecret, "wrong"}, url : {<<>>, StartUrl}]

HttpError(code, detail) == [code |-> code, body |-> [detail |-> detail]]
Timeout200 == [code |-> 200, body |-> [status |-> "timeout", detail |-> "Solver timed out"]]
Ok200(trace) == [code |-> 200, body |-> [status |-> "ok", result |-> trace]]

\* json.dumps(..., allow_nan=False) of JSONResponse.render raises ValueError
\* on a NaN anywhere in the content
RECURSIVE HasNaN(_)
HasNaN(x) ==
    CASE x.t = "num" -> x.v = <<"NaN">>
      [] x.t = "arr" -> \E i \in 1..Len(x.v) : HasNaN(x.v[i])
      [] x.t = "obj" -> \E i \in 1..Len(x.v) : HasNaN(x.v[i].val)
      [] OTHER -> FALSE

\* the fields of a step result that hold JSON from the model or the server
Renders(trace) ==
    \A k \in 1..Len(trace) :
        \A f \in (DOMAIN trace[k].result) \cap {"response", "answer", "result"} :
            ~HasNaN(trace[k].result[f])

\* line 52: JSONResponse(status_code=200, content={"status": "ok", ...}),
\* outside the try; an exception of its render is answered with a 500
OkResponse(trace) ==
    IF Renders(trace) THEN Ok200(trace) ELSE HttpError(500, "Internal Server Error")

\* where solve_quiz_chain is suspended in an await that does I/O (or has not
\* run yet): the points at which wait_for's cancellation arrives
Suspended ==
    \/ pc \in {"render", "gather", "resources", "pdfs", "execute", "post"}
    \/ pc = "loop" /\ loop_i = 0

QuizInit ==
    /\ ep_pc = "request"
    /\ ep_request \in Requests
    /\ ep_response = NoResponse
    /\ ep_partial = 0
    /\ ChainIdle
    /\ FindIdle
    /\ LlmIdle
    /\ RepairIdle
    /\ ApiIdle
    /\ TwoIdle

\* if payload.secret != QUIZ_SECRET: raise HTTPException(403)
EpForbidden ==
    /\ ep_pc = "request"
    /\ ep_request.secret # QuizSecret
    /\ ep_response' = HttpError(403, "Invalid secret")
    /\ ep_pc' = "responded"
    /\ UNCHANGED <<ep_request, ep_partial, chainVars, findVars, llmVars, repairVars, apiVars, twoVars>>

\* if not payload.url: raise HTTPException(400)
EpMissingUrl ==
    /\ ep_pc = "request"
    /\ ep_request.secret = QuizSecret
    /\ ep_request.url = <<>>
    /\ ep_response' = HttpError(400, "Missing url field")
    /\ ep_pc' = "responded"
    /\ UNCHANGED <<ep_request, ep_partial, chainVars, findVars, llmVars, repairVars, apiVars, twoVars>>

\* asyncio.wait_for(solve_quiz_chain(..., payload.url, ...), timeout=...)
EpRun ==
    /\ ep_pc = "request"
    /\ ep_request.secret = QuizSecret
    /\ ep_request.url # <<>>
    /\ ep_pc' = "running"
    /\ pc' = "loop"
    /\ current' = JStr(ep_request.url)
    /\ UNCHANGED <<loop_i, steps, page, plan_info, result, submit_url, step, http,
                   posted, raised, gatherVars, executor_prompt, ops>>
    /\ UNCHANGED <<ep_request, ep_response, ep_partial, findVars, llmVars, repairVars, apiVars, twoVars>>

\* the deadline expires: the task is cancelled (CancelledError is no
\* Exception, nothing in the solver catches it), its frames and the trace
\* built so far are dropped, wait_for raises TimeoutError
EpTimeout ==
    /\ ep_pc = "running"
    /\ Suspended
    /\ ep_partial' = Len(steps)
    /\ ep_response' = Timeout200
    /\ ep_pc' = "responded"
    /\ pc' = "cancelled"
    /\ loop_i' = 0
    /\ current' = JStr(StartUrl)
    /\ steps' = <<>>
    /\ page' = NoPage
    /\ plan_info' = NoValue
    /\ result' = NoValue
    /\ submit_url' = None
    /\ step' = NoStep
    /\ http' = NoHttp
    /\ posted' = FALSE
    /\ raised' = ""
    /\ targets' = {}
    /\ pdf_left' = <<>>
    /\ context_data' = <<>>
    /\ executor_prompt' = NoPrompt
    /\ downloads' = <<>>
    /\ skipped' = FALSE
    /\ ops' = <<>>
    /\ UNCHANGED <<ep_request, findVars, llmVars, repairVars, apiVars, twoVars>>

\* solve_quiz_chain returned in time: line 52
EpRespond ==
    /\ ep_pc = "running"
    /\ pc = "done"
    /\ ep_response' = OkResponse(steps)
    /\ ep_pc' = "responded"
    /\ UNCHANGED <<ep_request, ep_partial, chainVars, findVars, llmVars, repairVars, apiVars, twoVars>>

QuizNext ==
    \/ EpForbidden
    \/ EpMissingUrl
    \/ EpRun
    \/ EpTimeout
    \/ EpRespond
    \/ Next

SpecQuiz == QuizInit /\ [][QuizNext]_vars

(***************************************************************************)
(* call_aipipe_api called on its own, against a provider that may fail in   *)
(* any way on any attempt.                                                  *)
(***************************************************************************)
\* for attempt in range(3)
MaxTries == 3

\* await asyncio.sleep(0.5), in tenths of a second
RetryDelayTenths == 5

\* what makes an attempt fail: client.post raises, raise_for_status raises
\* on a 4xx/5xx, r.json() raises on a body that is no JSON
ApiFailures == {"ConnectError", "HTTPStatusError", "JSONDecodeError"}

\* what r.json() gives on a successful attempt
ApiBodies ==
    { ChoicesReply(JStr(<<"{", "}">>)),
      ChoicesReply(JStr(<<>>)),
      ChoicesReply(JNull),
      JObj(<<Member(<<"error">>, JStr(<<"a">>))>>),
      JArr(<<>>),
      JNull }

\* the entries of the log
Posted(ok, err, resp) == [ev |-> "post", ok |-> ok, err |-> err, resp |-> resp, tenths |-> 0]
Slept(tenths) == [ev |-> "sleep", ok |-> TRUE, err |-> "", resp |-> JNull, tenths |-> tenths]

\* the re-raise one attempt late
IsLastTry_OffByOne(attempt) == attempt = MaxTries

\* if attempt == 2: raise
IsLastTry(attempt) == attempt = 2

ApiInit ==
    /\ api_pc = "idle"
    /\ api_attempt = 0
    /\ api_out = NoValue
    /\ api_err = ""
    /\ api_log = <<>>
    /\ ChainIdle
    /\ FindIdle
    /\ LlmIdle
    /\ RepairIdle
    /\ QuizIdle
    /\ TwoIdle

\* call_aipipe_api(payload): the client is opened, the loop begins
ApiCall ==
    /\ api_pc = "idle"
    /\ api_pc' = "try"
    /\ api_attempt' = 0
    /\ UNCHANGED <<api_out, api_err, api_log, chainVars, findVars, llmVars, repairVars,
                   quizVars, twoVars>>

\* an attempt succeeds: return r.json()
ApiPostOk ==
    /\ api_pc = "try"
    /\ api_attempt < MaxTries
    /\ \E body \in ApiBodies :
        /\ api_log' = Append(api_log, Posted(TRUE, "", body))
        /\ api_out' = ApiReturns(body)
    /\ api_pc' = "returned"
    /\ UNCHANGED <<api_attempt, api_err, chainVars, findVars, llmVars, repairVars, quizVars, twoVars>>

\* an attempt fails: the exception is raised again on the last attempt,
\* otherwise the sleep follows
ApiPostFails ==
    /\ api_pc = "try"
    /\ api_attempt < MaxTries
    /\ \E e \in ApiFailures :
        /\ api_log' = Append(api_log, Posted(FALSE, e, JNull))
        /\ IF IsLastTry(api_attempt)
           THEN api_pc' = "raised" /\ api_out' = ApiRaises /\ api_err' = e
           ELSE api_pc' = "sleep" /\ UNCHANGED <<api_out, api_err>>
    /\ UNCHANGED <<api_attempt, chainVars, findVars, llmVars, repairVars, quizVars, twoVars>>

\* await asyncio.sleep(0.5), then the next iteration
ApiSleep ==
    /\ api_pc = "sleep"
    /\ api_log' = Append(api_log, Slept(RetryDelayTenths))
    /\ api_attempt' = api_attempt + 1
    /\ api_pc' = "try"
    /\ UNCHANGED <<api_out, api_err, chainVars, findVars, llmVars, repairVars, quizVars, twoVars>>

ApiNext == ApiCall \/ ApiPostOk \/ ApiPostFails \/ ApiSleep

SpecApi == ApiInit /\ [][ApiNext]_vars

(***************************************************************************)
(* Two runs of solve_quiz_chain on one event loop, each against its own     *)
(* collaborators, interleaved wherever a run awaits: the render, a reply    *)
(* of the model, the response to the submission.                            *)
(***************************************************************************)
\* blank replies the model gives at most before it gives text
MaxBlanks == 1

BlankCounts == {b \in 0..MaxBlanks : b < MaxAttempts}

\* the quizzes of a run: where it starts, and where a response sends it
TwoStart(r) == IF r = 1 THEN StartUrl ELSE <<"http://", "host", "/", "a">>
TwoNextUrl(r) == IF r = 1 THEN UrlX ELSE <<"http://", "host", "/", "1">>
OwnUrls(r) == {JStr(TwoStart(r)), JStr(TwoNextUrl(r))}

Continue(r) == JObj(<<Member(KeyCorrect, JTrue), Member(KeyUrl, JStr(TwoNextUrl(r)))>>)
Stop == JObj(<<Member(KeyCorrect, JFalse)>>)

\* the answers of a run's collaborators: per step, how many blank replies
\* each of its model calls gets before the text, and the body of the
\* response to the submission; the last response ends the chain
Scripts(r) ==
    { <<[blanks |-> b, body |-> Stop]>> : b \in BlankCounts }
    \cup { <<[blanks |-> b1, body |-> Continue(r)], [blanks |-> b2, body |-> Stop]>> :
              b1 \in BlankCounts, b2 \in BlankCounts }

\* what the Executor call returns, and the endpoint find_submit finds
TwoResult == JObj(<<Member(KeyAnswer, JNum(<<"1">>)), Member(KeyPayload, Payload)>>)
TwoSubmitUrl == <<"http://", "host", "/", "submit">>

\* solve_single, lines 229-247, on a step's answers
StepOf(item) ==
    IF WillSubmit(TwoSubmitUrl, TwoResult)
    THEN Caught(AfterPost(TwoResult, [status |-> 200, body |-> item.body]))
    ELSE Unsubmitted(TwoResult)

\* the prompts of a step, and body["messages"] as ask_llm_for_answer
\* builds it
Prompt(call, url) == [call |-> call, url |-> url]
FirstRequest(call, url) == <<SystemMessage, UserMessage(Prompt(call, url))>>

\* one storage for the locals of all the runs
FrameOf_Shared(r) == 1

\* steps, current (solve_quiz_chain) and body (ask_llm_for_answer) are
\* locals: every call has its own
FrameOf(r) == r

Item(r) == run_script[r][run_i[r]]

TwoInit ==
    /\ run_script \in [Runs -> UNION {Scripts(r) : r \in Runs}]
    /\ \A r \in Runs : run_script[r] \in Scripts(r)
    /\ run_pc = [r \in Runs |-> "off"]
    /\ run_i = [r \in Runs |-> 0]
    /\ run_attempt = [r \in Runs |-> 0]
    /\ frames = [f \in Runs |-> NoFrame]
    /\ run_requests = [r \in Runs |-> <<>>]
    /\ run_returned = [r \in Runs |-> <<>>]
    /\ ChainIdle
    /\ FindIdle
    /\ LlmIdle
    /\ RepairIdle
    /\ QuizIdle
    /\ ApiIdle

\* solve_quiz_chain(email, secret, url, owner_email) is called: steps = [],
\* current = url, the first iteration, up to `await render_page`
TwoBegin(r) ==
    /\ run_pc[r] = "off"
    /\ LoopContinues(run_i[r])
    /\ frames' = [frames EXCEPT ![FrameOf(r)] =
                     [steps |-> <<>>, current |-> JStr(TwoStart(r)), messages |-> <<>>]]
    /\ run_i' = [run_i EXCEPT ![r] = 1]
    /\ run_pc' = [run_pc EXCEPT ![r] = "render"]
    /\ UNCHANGED <<run_script, run_attempt, run_requests, run_returned,
                   chainVars, findVars, llmVars, repairVars, quizVars, apiVars>>

\* the page is rendered; llm_json(planner_prompt): ask_llm_for_answer
\* builds body and sends the first request
TwoRender(r) ==
    /\ run_pc[r] = "render"
    /\ LET f == FrameOf(r)
           m == FirstRequest("planner", frames[f].current)
       IN  /\ frames' = [frames EXCEPT ![f].messages = m]
           /\ run_requests' = [run_requests EXCEPT ![r] = Append(@, m)]
    /\ run_attempt' = [run_attempt EXCEPT ![r] = 0]
    /\ run_pc' = [run_pc EXCEPT ![r] = "planner"]
    /\ UNCHANGED <<run_script, run_i, run_returned,
                   chainVars, findVars, llmVars, repairVars, quizVars, apiVars>>

\* the reply is blank: "Return JSON now." is appended to body["messages"]
\* and the next request is sent
TwoBlank(r) ==
    /\ run_pc[r] \in {"planner", "executor"}
    /\ run_attempt[r] < Item(r).blanks
    /\ LET f == FrameOf(r)
           m == Append(frames[f].messages, NudgeMessage)
       IN  /\ frames' = [frames EXCEPT ![f].messages = m]
           /\ run_requests' = [run_requests EXCEPT ![r] = Append(@, m)]
    /\ run_attempt' = [run_attempt EXCEPT ![r] = @ + 1]
    /\ UNCHANGED <<run_script, run_pc, run_i, run_returned,
                   chainVars, findVars, llmVars, repairVars, quizVars, apiVars>>

\* the reply is text: the Planner call returns and the Executor call sends
\* its first request, or the Executor call returns and the answer is posted
TwoText(r) ==
    /\ run_pc[r] \in {"planner", "executor"}
    /\ run_attempt[r] = Item(r).blanks
    /\ IF run_pc[r] = "planner"
       THEN LET f == FrameOf(r)
                m == FirstRequest("executor", frames[f].current)
            IN  /\ frames' = [frames EXCEPT ![f].messages = m]
                /\ run_requests' = [run_requests EXCEPT ![r] = Append(@, m)]
                /\ run_attempt' = [run_attempt EXCEPT ![r] = 0]
                /\ run_pc' = [run_pc EXCEPT ![r] = "executor"]
       ELSE /\ run_pc' = [run_pc EXCEPT ![r] = "post"]
            /\ UNCHANGED <<frames, run_requests, run_attempt>>
    /\ UNCHANGED <<run_script, run_i, run_returned,
                   chainVars, findVars, llmVars, repairVars, quizVars, apiVars>>

\* the response to the submission: solve_single returns, the step is
\* appended, and the chain ends (return steps) or goes on with the next
\* URL, up to `await render_page`
TwoPost(r) ==
    /\ run_pc[r] = "post"
    /\ LET f == FrameOf(r)
           st == StepOf(Item(r))
           appended == Append(frames[f].steps, [url |-> frames[f].current, result |-> st])
       IN  IF ChainBreaks(st) \/ ~LoopContinues(run_i[r])
           THEN /\ frames' = [frames EXCEPT ![f].steps = appended]
                /\ run_returned' = [run_returned EXCEPT ![r] = appended]
                /\ run_pc' = [run_pc EXCEPT ![r] = "done"]
                /\ UNCHANGED run_i
           ELSE /\ frames' = [frames EXCEPT ![f].steps = appended,
                                            ![f].current = NextUrl(st)]
                /\ run_i' = [run_i EXCEPT ![r] = @ + 1]
                /\ run_pc' = [run_pc EXCEPT ![r] = "render"]
                /\ UNCHANGED run_returned
    /\ UNCHANGED <<run_script, run_attempt, run_requests,
                   chainVars, findVars, llmVars, repairVars, quizVars, apiVars>>

TwoNext ==
    \E r \in Runs :
        \/ TwoBegin(r)
        \/ TwoRender(r)
        \/ TwoBlank(r)
        \/ TwoText(r)
        \/ TwoPost(r)

SpecTwo == TwoInit /\ [][TwoNext]_vars

\* a run on its own: the requests of one model call that gets b blank
\* replies, the requests of a chain, and the trace of a chain
CallRequests(call, url, b) ==
    [n \in 1..(b + 1) |-> FirstRequest(call, url) \o [j \in 1..(n - 1) |-> NudgeMessage]]

RECURSIVE SoloRequests(_, _, _)
SoloRequests(url, script, k) ==
    IF k > Len(script) \/ ~LoopContinues(k - 1) THEN <<>>
    ELSE CallRequests("planner", url, script[k].blanks)
         \o CallRequests("executor", url, script[k].blanks)
         \o (IF ChainBreaks(StepOf(script[k])) THEN <<>>
             ELSE SoloRequests(NextUrl(StepOf(script[k])), script, k + 1))

RECURSIVE SoloTrace(_, _, _)
SoloTrace(url, script, k) ==
    IF k > Len(script) \/ ~LoopContinues(k - 1) THEN <<>>
    ELSE <<[url |-> url, result |-> StepOf(script[k])]>>
         \o (IF ChainBreaks(StepOf(script[k])) THEN <<>>
             ELSE SoloTrace(NextUrl(StepOf(script[k])), script, k + 1))

(***************************************************************************)
(* find_submit called on its own, on any page.                              *)
(***************************************************************************)
FsInit ==
    /\ fs_pc = "input"
    /\ fs_html \in HtmlSeeds
    /\ fs_links \in LinkLists
    /\ fs_result = None
    /\ ChainIdle
    /\ LlmIdle
    /\ AuxIdle

\* the page's HTML, one token more (MaxHtmlLen tokens at most after the
\* beginning)
FsAppend ==
    /\ fs_pc = "input"
    /\ \E seed \in HtmlSeeds :
        /\ Len(seed) <= Len(fs_html)
        /\ SubSeq(fs_html, 1, Len(seed)) = seed
        /\ Len(fs_html) < Len(seed) + MaxHtmlLen
    /\ \E c \in HtmlTokens : fs_html' = Append(fs_html, c)
    /\ UNCHANGED <<fs_pc, fs_links, fs_result, chainVars, llmVars, auxVars>>

FsCall ==
    /\ fs_pc = "input"
    /\ fs_result' = find_submit(fs_html, fs_links, BaseUrl)
    /\ fs_pc' = "done"
    /\ UNCHANGED <<fs_html, fs_links, chainVars, llmVars, auxVars>>

FsNext == FsAppend \/ FsCall

SpecFind == FsInit /\ [][FsNext]_vars

(***************************************************************************)
(* The chain driver's properties.                                           *)
(***************************************************************************)
LastStep == steps[Len(steps)]

\* the step result has a dict-shaped response with a non-empty `url`
GivesNextUrl(st) ==
    /\ "response" \in DOMAIN st
    /\ IsDict(st.response)
    /\ HasKey(st.response, KeyUrl)
    /\ Truthy(Get(st.response, KeyUrl))

\* the response is a dict with `correct` false and no `url` key
IncorrectNoUrl(st) ==
    /\ "response" \in DOMAIN st
    /\ IsDict(st.response)
    /\ GetOr(st.response, KeyCorrect) = JFalse
    /\ ~HasKey(st.response, KeyUrl)

\* the response is a dict with `correct` false and `url` a non-empty string
IncorrectWithUrl(st) ==
    /\ "response" \in DOMAIN st
    /\ IsDict(st.response)
    /\ GetOr(st.response, KeyCorrect) = JFalse
    /\ HasKey(st.response, KeyUrl)
    /\ Get(st.response, KeyUrl).t = "str"
    /\ Get(st.response, KeyUrl).v # <<>>

\* C1: solve_quiz_chain begins at most 12 steps and its trace never has more
\* than 12 entries; a run in which every step's response is a dict with a
\* non-empty url ends after exactly 12 steps, with exactly 12 entries.
C1_TwelveStepCap ==
    /\ loop_i <= 12
    /\ Len(steps) <= 12
    /\ Len(steps) <= loop_i
    /\ (pc = "done" /\ \A k \in 1..Len(steps) : GivesNextUrl(steps[k].result))
          => (Len(steps) = 12 /\ loop_i = 12)

\* a finished run of 12 steps, each sent back to the start URL
C1_Witness ==
    /\ pc = "done"
    /\ Len(steps) = 12
    /\ \A k \in 1..Len(steps) :
          /\ GivesNextUrl(steps[k].result)
          /\ Get(steps[k].result.response, KeyUrl) = JStr(StartUrl)
          /\ steps[k].url = JStr(StartUrl)

\* C2: a step whose response is a dict with correct = false and no url key
\* is the last entry of the trace and the last step begun: the run is over.
\* On the first step the trace has exactly one entry.
C2_StopsOnIncorrectWithoutUrl ==
    \A k \in 1..Len(steps) :
        IncorrectNoUrl(steps[k].result)
            => (k = Len(steps) /\ pc = "done" /\ loop_i = k)

C2_Witness ==
    /\ pc = "done"
    /\ Len(steps) = 1
    /\ loop_i = 1
    /\ IncorrectNoUrl(steps[1].result)

\* C3: a step whose response is {correct: false, url: X} does not end the
\* run while fewer than 12 steps were begun: the current URL becomes X, the
\* next iteration can begin, and the next entry of the trace has the URL X.
C3_ContinuesOnIncorrectWithUrl ==
    \A k \in 1..Len(steps) :
        IncorrectWithUrl(steps[k].result) =>
            /\ (k = Len(steps) /\ k < 12) =>
                  /\ pc # "done"
                  /\ current = Get(steps[k].result.response, KeyUrl)
                  /\ (pc = "loop" => ENABLED StartStep)
            /\ k < Len(steps) => steps[k + 1].url = Get(steps[k].result.response, KeyUrl)

C3_Witness ==
    \E k \in 1..Len(steps) :
        /\ IncorrectWithUrl(steps[k].result)
        /\ k < Len(steps)
        /\ steps[k + 1].url = JStr(UrlX)
        /\ steps[k].url = JStr(StartUrl)

\* C4: when solve_single raised, the step of the trace is the step's URL
\* with {error: str(e)}, no further step is begun and solve_quiz_chain
\* returns the trace; every step begun is in the trace once the driver is
\* between steps or has returned.
C4_ExceptionsBecomeErrorSteps ==
    /\ pc \in {"loop", "render", "gather", "resources", "pdfs", "execute", "find", "post",
              "append", "done"}
    /\ raised # "" => (pc \in {"append", "done"} /\ step = [error |-> raised])
    /\ (raised # "" /\ pc = "done") =>
          /\ steps # <<>>
          /\ LastStep = [url |-> current, result |-> [error |-> raised]]
    /\ pc \in {"loop", "done"} => Len(steps) = loop_i

\* the second step raised and the run is over, both steps in the trace
C4_Witness ==
    /\ pc = "done"
    /\ raised # ""
    /\ Len(steps) = 2
    /\ loop_i = 2
    /\ LastStep.result = [error |-> raised]

\* C6: a step whose POST was sent is in the trace as one of the three
\* `submitted: true` shapes, never as a bare {error: ...}, whatever the
\* Executor's result.
C6_PostedStepIsSubmitted ==
    (posted /\ pc \in {"loop", "done"}) =>
        /\ "submitted" \in DOMAIN LastStep.result
        /\ LastStep.result.submitted
        /\ "answer" \in DOMAIN LastStep.result
        /\ ("response" \in DOMAIN LastStep.result \/ "error" \in DOMAIN LastStep.result)

\* C7: the POST is sent only if a submission URL was found and the
\* Executor's result has `submit_payload`; when the result is a mapping and
\* either is missing, no POST is sent and the step is
\* {submitted: false, result: executorResult}, not a failure.
C7_UnsubmittedWithoutUrlOrPayload ==
    /\ posted => (submit_url # None /\ submit_url # <<>> /\ IsDict(result)
                    /\ HasKey(result, KeyPayload))
    /\ (/\ pc \in {"append", "loop", "done"}
        /\ IsDict(result)
        /\ (submit_url = None \/ submit_url = <<>> \/ ~HasKey(result, KeyPayload)))
          => (~posted /\ raised = "" /\ step = [submitted |-> FALSE, result |-> result])

\* a payload but no submission URL, and a submission URL but no payload
C7_Witness ==
    /\ pc = "done"
    /\ IsDict(result)
    /\ submit_url # None
    /\ ~HasKey(result, KeyPayload)
    /\ HasKey(result, KeyAnswer)
    /\ LastStep.result = [submitted |-> FALSE, result |-> result]

\* C8: whenever the POST returned, with any status, a JSON body that is a
\* mapping with a non-empty url, the step is
\* {submitted: true, response: body, answer} and the chain goes on to that
\* url (or has used up its 12 steps).
C8_StatusKeepsNextUrl ==
    (/\ pc \in {"append", "loop", "done"}
     /\ http.status # 0
     /\ IsDict(http.body)
     /\ HasKey(http.body, KeyUrl)
     /\ Truthy(Get(http.body, KeyUrl)))
        => /\ DOMAIN step = {"submitted", "response", "answer"}
           /\ step.submitted
           /\ step.response = http.body
           /\ pc = "loop" => current = Get(http.body, KeyUrl)
           /\ pc = "done" => loop_i = 12

(***************************************************************************)
(* llm_json's properties.                                                   *)
(***************************************************************************)
\* C5: llm_json returns a mapping whatever the provider does, and the empty
\* mapping when every attempt failed.
C5_AlwaysAMapping ==
    llm_pc = "done" =>
        /\ IsDict(llm_result)
        /\ llm_failed = 3 => llm_result = JObj(<<>>)

\* C10: when the model's text is the serialisation of a mapping x, with
\* json.dumps's separators or the compact ones, llm_json returns x.
C10_RecoverIsIdentityOnValidJson ==
    (llm_pc = "done" /\ llm_sent # NoValue) =>
        /\ IsDict(llm_sent)
        /\ llm_text \in {json_dumps(llm_sent), json_dumps_compact(llm_sent)}
        /\ llm_result = llm_sent

\* a mapping with a string value the repair's patterns would rewrite
C10_Witness ==
    /\ llm_pc = "done"
    /\ llm_sent = JObj(<<Member(<<"a">>, JStr(<<",", "}">>))>>)
    /\ llm_text = <<"{", "\"", "a", "\"", ":", "\"", ",", "}", "\"", "}">>
    /\ llm_result = llm_sent
    /\ RepairText(llm_text) # llm_text

(***************************************************************************)
(* find_submit's properties.                                                *)
(***************************************************************************)
\* the links that contain "submit" in any case, the form actions and the
\* URL-like token of the page find_submit was called on
SubmitLinks == {k \in 1..Len(fs_links) : ContainsSubmit(Lower(fs_links[k]))}
SubmitActions ==
    {k \in 1..Len(ActionValues(fs_html)) : ContainsSubmit(ActionValues(fs_html)[k])}

C11_RecoversDefectiveJson ==
    (rp_pc = "done" /\ rp_defects # {}) =>
        rp_result = Intended(rp_value, rp_defects)

(***************************************************************************)
(* The endpoint's properties.                                               *)
(***************************************************************************)
\* C12: a request with a wrong secret is answered 403 and one without url
\* 400, the chain driver not called; any other is answered 200 with
\* {status: ok, result}, {status: timeout, detail} or {status: error, detail},
\* never with a 5xx, and on a timeout without the trace.
C12_EndpointAnswers ==
    ep_pc = "responded" =>
        /\ ep_request.secret # QuizSecret =>
              (ep_response.code = 403 /\ pc = "off")
        /\ (ep_request.secret = QuizSecret /\ ep_request.url = <<>>) =>
              (ep_response.code = 400 /\ pc = "off")
        /\ (ep_request.secret = QuizSecret /\ ep_request.url # <<>>) =>
              /\ ep_response.code = 200
              /\ "status" \in DOMAIN ep_response.body
              /\ \/ /\ ep_response.body.status = "ok"
                    /\ DOMAIN ep_response.body = {"status", "result"}
                    /\ pc = "done"
                    /\ ep_response.body.result = steps
                 \/ /\ ep_response.body.status \in {"timeout", "error"}
                    /\ DOMAIN ep_response.body = {"status", "detail"}

(***************************************************************************)
(* The chain driver's properties, continued.                                *)
(***************************************************************************)
\* C13: a step whose result has no response, a response that is no mapping,
\* or a mapping without a non-empty url, whatever its `correct`, is the last
\* entry of the trace and the last step begun: there was no next URL.
C13_NextUrlOnlyFromDictResponse ==
    \A k \in 1..Len(steps) :
        ~GivesNextUrl(steps[k].result)
            => (k = Len(steps) /\ pc = "done" /\ loop_i = k)

\* the second step's POST was answered with text that is no JSON mapping
C13_Witness ==
    /\ pc = "done"
    /\ Len(steps) = 2
    /\ GivesNextUrl(steps[1].result)
    /\ "response" \in DOMAIN LastStep.result
    /\ ~IsDict(LastStep.result.response)
    /\ LastStep.result.submitted

\* C14: the trace is only appended to, one entry at a time and only by the
\* append of the step in progress; a step begins only when every step begun
\* before is in the trace; the first entry has the start URL and every
\* later entry the `url` of the dict-shaped response of the entry before it.
C14_TraceLinkage ==
    /\ [][/\ Len(steps') >= Len(steps)
          /\ SubSeq(steps', 1, Len(steps)) = steps
          /\ steps' # steps => (pc = "append" /\ Len(steps') = Len(steps) + 1)
          /\ loop_i' # loop_i => (loop_i' = loop_i + 1 /\ Len(steps) = loop_i)]_vars
    /\ [](/\ steps # <<>> => steps[1].url = JStr(StartUrl)
          /\ \A k \in 2..Len(steps) :
                /\ GivesNextUrl(steps[k - 1].result)
                /\ steps[k].url = Get(steps[k - 1].result.response, KeyUrl)
          /\ pc \in {"render", "gather", "resources", "pdfs", "execute", "find", "post", "append"}
                => Len(steps) = loop_i - 1)

\* three entries: the start URL twice, then the URL the second response gave
C14_Witness ==
    /\ Len(steps) = 3
    /\ steps[1].url = JStr(StartUrl)
    /\ steps[2].url = JStr(StartUrl)
    /\ steps[3].url = JStr(UrlX)
    /\ Get(steps[2].result.response, KeyUrl) = JStr(UrlX)

(***************************************************************************)
(* The provider call's properties.                                          *)
(***************************************************************************)
PostsOf(log) == {n \in 1..Len(log) : log[n].ev = "post"}

\* C15: call_aipipe_api POSTs at most 3 times; a success is the last event
\* of the call and its body is what the call returns; every failure but the
\* third is followed by one sleep of 0.5 s and then the next POST; the third
\* failure is what the call raises; the loop never runs out without a
\* return or a raise.
C15_ThreeTriesThenReraise ==
    /\ Cardinality(PostsOf(api_log)) <= 3
    /\ api_pc = "try" => api_attempt < MaxTries
    /\ \A n \in 1..Len(api_log) :
          /\ (api_log[n].ev = "post" /\ api_log[n].ok) =>
                (n = Len(api_log) /\ api_pc = "returned"
                    /\ api_out = ApiReturns(api_log[n].resp))
          /\ (api_log[n].ev = "post" /\ ~api_log[n].ok /\ Cardinality(PostsOf(SubSeq(api_log, 1, n))) < 3) =>
                /\ n = Len(api_log) => api_pc = "sleep"
                /\ n < Len(api_log) => api_log[n + 1] = Slept(5)
          /\ api_log[n].ev = "sleep" =>
                /\ n > 1 /\ api_log[n - 1].ev = "post" /\ ~api_log[n - 1].ok
                /\ n = Len(api_log) => api_pc = "try"
                /\ n < Len(api_log) => api_log[n + 1].ev = "post"
    /\ api_pc = "returned" => (api_log # <<>> /\ api_log[Len(api_log)].ok /\ api_err = "")
    /\ api_pc = "raised" =>
          /\ Cardinality(PostsOf(api_log)) = 3
          /\ \A n \in PostsOf(api_log) : ~api_log[n].ok
          /\ api_out = ApiRaises
          /\ api_err = api_log[Len(api_log)].err
    /\ api_pc \in {"idle", "try", "sleep", "returned", "raised"}

\* three failures of different kinds, the last one raised
C15_Witness ==
    /\ api_pc = "raised"
    /\ Len(api_log) = 5
    /\ api_log[1].err = "ConnectError"
    /\ api_log[3].err = "HTTPStatusError"
    /\ api_log[5].err = "JSONDecodeError"
    /\ api_err = "JSONDecodeError"

(***************************************************************************)
(* ask_llm_for_answer's properties.                                         *)
(***************************************************************************)
\* the system instruction, the prompt and n times "Return JSON now."
History(n) ==
    <<SystemMessage, UserMessage("prompt")>> \o [k \in 1..n |-> NudgeMessage]

\* C16: the request of attempt k of a call is the system instruction, the
\* user prompt and k-1 turns "Return JSON now.", nothing else, in every
\* call; between attempts the history is that of the next request.
C16_AccumulatingNudges ==
    /\ Len(llm_requests) <= 3
    /\ \A k \in 1..Len(llm_requests) : llm_requests[k] = History(k - 1)
    /\ llm_pc = "ask" => (llm_messages = History(llm_attempt)
                             /\ Len(llm_requests) = llm_attempt)

\* the third request of a call, after an attempt that raised and a blank one
C16_Witness ==
    /\ llm_pc = "done"
    /\ Len(llm_requests) = 3
    /\ llm_requests[3] = <<SystemMessage, UserMessage("prompt"), NudgeMessage, NudgeMessage>>
    /\ llm_failed = 1
    /\ llm_attempt = 2
    /\ llm_sent # NoValue

StepOrder == <<"render", "resources", "pdfs", "planner", "executor", "find_submit", "post">>

\* C18: the operations of a step are, in this order, the render, the
\* gathering of the files and then of the PDFs, the Planner call, the
\* Executor call, the search of the submit URL and at most one POST; the
\* Executor's prompt holds the plan the Planner call returned; a step that
\* reaches the search of the submit URL made exactly two llm_json calls; the
\* POST is never before the Executor call.
C18_FixedOrder ==
    /\ Len(ops) <= Len(StepOrder)
    /\ ops = SubSeq(StepOrder, 1, Len(ops))
    /\ posted <=> (\E k \in 1..Len(ops) : ops[k] = "post")
    /\ (\E k \in 1..Len(ops) : ops[k] = "find_submit") =>
          Cardinality({k \in 1..Len(ops) : ops[k] \in {"planner", "executor"}}) = 2
    /\ pc = "execute" => plan_info \in PlannerResults
    /\ pc = "find" =>
          /\ plan_info \in PlannerResults
          /\ executor_prompt.plan = plan_info
          /\ executor_prompt.context = context_data
          /\ ops = SubSeq(StepOrder, 1, 5)
    /\ pc = "post" => ops = StepOrder

\* the Executor was called with a plan that is not empty, and a step went
\* through all the operations, the POST included
C18_Witness ==
    /\ pc = "append"
    /\ ops = StepOrder
    /\ http # NoHttp
    /\ Len(steps) = 1

C20_RunsShareNothing ==
    \A r \in Runs :
        /\ \A n \in 1..Len(run_requests[r]) :
              LET q == run_requests[r][n]
              IN  /\ Len(q) >= 2
                  /\ Len(q) <= 2 + MaxBlanks
                  /\ q[1] = SystemMessage
                  /\ \E call \in {"planner", "executor"}, url \in OwnUrls(r) :
                        q[2] = UserMessage(Prompt(call, url))
                  /\ \A j \in 3..Len(q) : q[j] = NudgeMessage
        /\ run_pc[r] = "done" =>
              /\ run_returned[r] = SoloTrace(JStr(TwoStart(r)), run_script[r], 1)
              /\ run_requests[r] = SoloRequests(JStr(TwoStart(r)), run_script[r], 1)
              /\ \A k \in 1..Len(run_returned[r]) : run_returned[r][k].url \in OwnUrls(r)

\* the two runs are both in their second step, each in a model call that
\* got a blank reply, each with the first step in its trace
C20_Witness ==
    \A r \in Runs :
        /\ run_pc[r] = "executor"
        /\ run_i[r] = 2
        /\ run_attempt[r] = 1
        /\ Len(frames[r].steps) = 1
        /\ frames[r].steps[1].url = JStr(TwoStart(r))
        /\ frames[r].messages = FirstRequest("executor", JStr(TwoNextUrl(r))) \o <<NudgeMessage>>

====
